---- MODULE Spec2Model ----
(***************************************************************************)
(* Model of the event synchronisation services of eventbrite_sync:        *)
(*   models/eventbrite_sync.py  (EventbriteSync, Eventbrite variant)       *)
(*   models/nyc_events_sync.py  (NYCEventsSync, Ticketmaster variant)      *)
(*                                                                         *)
(* The datastore is the ORM the services run on.  It is modelled by what   *)
(* the services can observe of it:                                         *)
(*   - create/write store the given values; a record id is the position    *)
(*     of the record in its table; records are never removed;              *)
(*   - search(domain, limit) returns the records matching the domain in    *)
(*     id order, and, as event.event and res.partner carry the reserved    *)
(*     field "active", only records with active = TRUE (the ORM adds the   *)
(*     condition to every search whose domain does not mention the field); *)
(*   - a search whose domain is not well formed raises.                    *)
(* Times are integers (hours); a change token is an ISO string without an  *)
(* offset, so that the stored and the incoming token are comparable.       *)
(***************************************************************************)
EXTENDS Integers, Sequences, FiniteSets, TLC

VARIABLES events, partners, legacy, icp, now, last, fetch, race

vars == <<events, partners, legacy, icp, now, last, fetch, race>>

(***************************************************************************)
(* Bounds of the model.                                                    *)
(***************************************************************************)
MaxEvents == 4
MaxPartners == 3
MaxNow == 3
MaxBatch == 2

(***************************************************************************)
(* Values.                                                                 *)
(***************************************************************************)
\* Python None / a missing key / Odoo False, in a string slot.
None == "None"
\* Odoo False in a many2one or datetime slot.
NoId == 0
NoTime == -1

\* Truthiness that takes only None for unset: the empty string counts as set.
Truthy_EmptyIsSet(s) == s # None

Truthy(s) == s # None /\ s # ""

\* An ISO-8601 string as datetime.fromisoformat sees it:
\*   "none"  the key is missing,  "bad" not parsable,
\*   "naive" local time t without offset,  "aware" local time t, offset off.
Iso(k, t, o) == [kind |-> k, t |-> t, off |-> o]
IsoNone == Iso("none", 0, 0)
IsoBad == Iso("bad", 0, 0)
Naive(t) == Iso("naive", t, 0)
Aware(t, o) == Iso("aware", t, o)

\* UTC offset (hours) of a timezone name on the dates the model uses.
TzOffset(tz) == IF tz = "America/New_York" THEN 0 - 4 ELSE 0

(***************************************************************************)
(* Reference tables res.country and res.country.state: code -> id.         *)
(***************************************************************************)
CountryId(code) == IF code = "US" THEN 1 ELSE IF code = "CA" THEN 2 ELSE NoId
StateId(code) == IF code = "NY" THEN 1 ELSE NoId

(***************************************************************************)
(* Tables.                                                                 *)
(***************************************************************************)
\* A search that returns the archived records too.
ActiveMatches_WithArchived(table, matching) == matching

\* Ids of the records a search returns, of the ids its domain selects: the
\* archived records are left out.
ActiveMatches(table, matching) ==
  {i \in matching : table[i].active}

Min(S) == CHOOSE x \in S : \A y \in S : x <= y

\* A search that never finds a record.
SearchOne_FindsNothing(table, matching) == NoId

\* search(dom, limit=1): the first match, NoId for the empty recordset.
SearchOne(table, matching) ==
  LET m == ActiveMatches(table, matching) IN IF m = {} THEN NoId ELSE Min(m)

\* record.write(vals): the fields named in vals are replaced, the others kept.
Write(rec, vals) ==
  [f \in DOMAIN rec |-> IF f \in DOMAIN vals THEN vals[f] ELSE rec[f]]

\* Python "a or b" on two string slots.
Or(a, b) == IF Truthy(a) THEN a ELSE b

(***************************************************************************)
(* res.partner: the places.                                                *)
(***************************************************************************)
\* Field defaults of a new res.partner.
PartnerDefaults ==
  [name |-> None, type |-> "contact", street |-> None, street2 |-> None,
   city |-> None, zip |-> None, country_id |-> NoId, state_id |-> NoId,
   active |-> TRUE]

\* Result of a venue resolution: the partner table afterwards, the id
\* returned, and whether the call raised instead of returning.
Resolved(pa, id) == [partners |-> pa, id |-> id, raised |-> FALSE]
ResolveRaised(pa) == [partners |-> pa, id |-> NoId, raised |-> TRUE]

\* An Eventbrite venue address: present is FALSE for a missing or empty dict.
EBAddr(a1, a, a2, city, zip, country) ==
  [present |-> TRUE, address_1 |-> a1, address |-> a, address_2 |-> a2,
   city |-> city, postal_code |-> zip, country |-> country]
NoEBAddr ==
  [present |-> FALSE, address_1 |-> None, address |-> None, address_2 |-> None,
   city |-> None, postal_code |-> None, country |-> None]

\* EventbriteSync._find_country: no lookup for an empty code; otherwise the
\* search is given the domain [("|", (..), (..))], one term whose field name
\* is "|", which the ORM rejects: the call raises.
FindCountryEBRaises(code_or_name) == Truthy(code_or_name)

\* EventbriteSync._get_or_create_venue_partner
GetOrCreateVenuePartnerEB(pa, name, addr) ==
  LET pname == IF Truthy(name) THEN name ELSE "Venue"
      partner == SearchOne(pa, {i \in 1..Len(pa) : pa[i].name = pname})
      vals == IF addr.present
                THEN [name |-> pname, type |-> "other",
                      street |-> Or(addr.address_1, addr.address),
                      street2 |-> addr.address_2,
                      city |-> addr.city,
                      zip |-> addr.postal_code]
                ELSE [name |-> pname, type |-> "other"]
  IN IF addr.present /\ FindCountryEBRaises(addr.country)
       THEN ResolveRaised(pa)
       ELSE IF partner # NoId
         THEN Resolved([pa EXCEPT ![partner] = Write(@, vals)], partner)
         ELSE Resolved(Append(pa, Write(PartnerDefaults, vals)), Len(pa) + 1)

\* A Ticketmaster venue: present is FALSE for the empty dict; a key the
\* payload lacks reads as "" (the default of each .get).
TMVenue(name, line1, line2, city, zip, state, country) ==
  [present |-> TRUE, name |-> name, line1 |-> line1, line2 |-> line2,
   city |-> city, postalCode |-> zip, stateCode |-> state,
   countryCode |-> country]
NoTMVenue ==
  [present |-> FALSE, name |-> "", line1 |-> "", line2 |-> "", city |-> "",
   postalCode |-> "", stateCode |-> None, countryCode |-> None]

\* str.upper on the codes of the model.
Upper(code) == IF code = "us" THEN "US" ELSE IF code = "ny" THEN "NY" ELSE code

\* NYCEventsSync._find_country
FindCountryTM(code) == IF ~Truthy(code) THEN NoId ELSE CountryId(Upper(code))

\* NYCEventsSync._find_state
FindState(code) == IF ~Truthy(code) THEN NoId ELSE StateId(Upper(code))

\* NYCEventsSync._get_or_create_venue_partner
GetOrCreateVenuePartnerTM(pa, name, venue_data) ==
  LET pname == IF Truthy(name) THEN name ELSE "Venue"
      partner == SearchOne(pa, {i \in 1..Len(pa) : pa[i].name = pname})
      country == FindCountryTM(venue_data.countryCode)
      base == [name |-> pname, type |-> "other"]
      addr == [name |-> pname, type |-> "other",
               street |-> venue_data.line1,
               street2 |-> venue_data.line2,
               city |-> venue_data.city,
               zip |-> venue_data.postalCode,
               state_id |-> FindState(venue_data.stateCode)]
      vals == IF ~venue_data.present THEN base
              ELSE IF country # NoId THEN addr @@ [country_id |-> country]
              ELSE addr
  IN IF partner # NoId
       THEN Resolved([pa EXCEPT ![partner] = Write(@, vals)], partner)
       ELSE Resolved(Append(pa, Write(PartnerDefaults, vals)), Len(pa) + 1)

(***************************************************************************)
(* event.event: the local catalog, with the fields both services add.      *)
(***************************************************************************)
\* Field defaults of a new event.event.
EventDefaults ==
  [eventbrite_id |-> None, ticketmaster_id |-> None, name |-> None,
   date_begin |-> NoTime, date_end |-> NoTime, external_url |-> None,
   eventbrite_status |-> None, ticketmaster_status |-> None,
   event_category |-> <<"", "">>, venue_name |-> None,
   address_id |-> NoId, website_id |-> NoId,
   website_published |-> FALSE, active |-> TRUE,
   eventbrite_changed |-> NoTime, last_synced_at |-> NoTime,
   image_1920 |-> None]

\* Result of an upsert: the tables afterwards and the value returned
\* ("created", "updated", "skipped"), or "raised" when an exception leaves
\* the call.
Outcome(ev, pa, res) == [events |-> ev, partners |-> pa, res |-> res]

\* A _set_event_image whose failed download takes the event off the website.
SetEventImage_FailureUnpublishes(rec, url, ok) ==
  IF ok THEN [rec EXCEPT !.image_1920 = url]
  ELSE [rec EXCEPT !.website_published = FALSE]

\* EventbriteSync._set_event_image / NYCEventsSync._set_event_image: the
\* download either succeeds (ok) and the content is stored, or fails and is
\* logged.
SetEventImage(rec, url, ok) == IF ok THEN [rec EXCEPT !.image_1920 = url] ELSE rec

\* The guard "if not eb_id" / "if not tm_id": the id is missing or empty.
IdMissing_EmptyAccepted(id) == id = None

IdMissing(id) == ~Truthy(id)

\* EventbriteSync._to_utc
ToUtc(local_iso, tzname, clock) ==
  CASE local_iso.kind = "none" -> NoTime
    [] local_iso.kind = "bad" -> clock
    [] local_iso.kind = "naive" -> local_iso.t
    [] local_iso.kind = "aware" -> local_iso.t - local_iso.off

\* The change token of a raw Eventbrite event: changed, else updated, else
\* created (lines 776-782); None when absent or not parsable.
FirstIso(a, b, c) ==
  IF a.kind # "none" THEN a ELSE IF b.kind # "none" THEN b ELSE c

\* A change token read from "changed" alone, without the fallbacks.
ChangedDt_ChangedOnly(eb_event) ==
  IF eb_event.changed.kind = "naive" THEN eb_event.changed.t ELSE NoTime

ChangedDt(eb_event) ==
  LET changed == FirstIso(eb_event.changed, eb_event.updated, eb_event.created)
  IN CASE changed.kind = "none" -> NoTime
       [] changed.kind = "bad" -> NoTime
       [] changed.kind = "naive" -> changed.t

EBLive == {"live", "scheduled", "started"}

EBNegative_DeletedForgotten == {"canceled"}

EBNegative_DraftToo == {"canceled", "deleted", "draft"}

EBNegative == {"canceled", "deleted"}

\* A freshness test that lets every record through.
IsStale_Never(changed_dt, stored) == FALSE

\* The freshness test of line 803.
IsStale(changed_dt, stored) ==
  changed_dt # NoTime /\ stored # NoTime /\ changed_dt <= stored

\* EventbriteSync._upsert_minimal up to its lookup (lines 743-784) and the
\* freshness test on what the lookup found (line 803): the venue is
\* resolved, then the event of this id is searched.  res is the value
\* returned when the call ends here, None when it goes on to write.
Looked(res, pa, partner_id, existing) ==
  [res |-> res, partners |-> pa, partner_id |-> partner_id,
   existing |-> existing]

LookupMinimal(ev, pa, eb_event) ==
  LET eb_id == eb_event.id
      wantVenue == Truthy(eb_event.venue_name) \/ eb_event.venue_addr.present
      venue == IF wantVenue
                 THEN GetOrCreateVenuePartnerEB(pa, eb_event.venue_name,
                                                eb_event.venue_addr)
                 ELSE Resolved(pa, NoId)
      existing == SearchOne(ev, {i \in 1..Len(ev) :
                                   ev[i].eventbrite_id = eb_id})
  IN IF IdMissing(eb_id) THEN Looked("skipped", pa, NoId, NoId)
     ELSE IF venue.raised THEN Looked("raised", pa, NoId, NoId)
     ELSE IF existing # NoId
             /\ IsStale(ChangedDt(eb_event), ev[existing].eventbrite_changed)
       THEN Looked("skipped", venue.partners, venue.id, existing)
     ELSE Looked(None, venue.partners, venue.id, existing)

\* The writes of _upsert_minimal to its event (lines 786-830), as the
\* sequence of the values the event takes, one for each statement that
\* writes it: rec is the event its lookup found, as it is now, for the
\* update branch (existing), and is not read for the create branch.  A
\* statement that is not run leaves the value as it is.
WritesMinimal(rec, existing, partner_id, eb_event, auto_publish, website_id, clock, imgOk) ==
  LET eb_id == eb_event.id
      name == Or(eb_event.name, "")
      end_tz == Or(eb_event.end.timezone, eb_event.start.timezone)
      date_begin_utc == ToUtc(eb_event.start.local, eb_event.start.timezone, clock)
      date_end_utc == ToUtc(eb_event.end.local, end_tz, clock)
      status == eb_event.status
      logo_url == eb_event.logo_url
      changed_dt == ChangedDt(eb_event)
      vals0 == [name |-> Or(name, "Event"),
                date_begin |-> date_begin_utc,
                date_end |-> date_end_utc,
                external_url |-> eb_event.url,
                eventbrite_status |-> status]
      vals1 == IF partner_id # NoId
                 THEN vals0 @@ [address_id |-> partner_id] ELSE vals0
      vals == IF website_id # NoId
                THEN vals1 @@ [website_id |-> website_id] ELSE vals1
      publish_flag == auto_publish /\ status \in EBLive
      unpublish_flag == status \in EBNegative
      \* the update branch, lines 805-815
      u1 == Write(rec, vals)
      u2 == IF Truthy(logo_url) THEN SetEventImage(u1, logo_url, imgOk) ELSE u1
      u3 == IF publish_flag THEN [u2 EXCEPT !.website_published = TRUE] ELSE u2
      u4a == IF unpublish_flag THEN [u3 EXCEPT !.website_published = FALSE]
             ELSE u3
      u4 == IF unpublish_flag THEN [u4a EXCEPT !.active = FALSE] ELSE u4a
      u5a == [u4 EXCEPT !.eventbrite_changed = changed_dt]
      u5 == [u5a EXCEPT !.last_synced_at = clock]
      \* the create branch, lines 818-829
      c1 == Write(EventDefaults,
                  vals @@ [eventbrite_id |-> eb_id,
                           eventbrite_changed |-> changed_dt,
                           last_synced_at |-> clock,
                           website_published |-> publish_flag])
      c2 == IF Truthy(logo_url) THEN SetEventImage(c1, logo_url, imgOk) ELSE c1
      c3a == IF unpublish_flag THEN [c2 EXCEPT !.website_published = FALSE]
             ELSE c2
      c3 == IF unpublish_flag THEN [c3a EXCEPT !.active = FALSE] ELSE c3a
  IN IF existing THEN <<u1, u2, u3, u4a, u4, u5a, u5>>
     ELSE <<c1, c2, c3a, c3>>

\* The event as _upsert_minimal leaves it: the value after its last write.
LastOf(writes) == writes[Len(writes)]

WriteMinimal(rec, existing, partner_id, eb_event, auto_publish, website_id, clock, imgOk) ==
  LastOf(WritesMinimal(rec, existing, partner_id, eb_event, auto_publish,
                       website_id, clock, imgOk))

\* The store after the write of _upsert_minimal, and the value returned.
Stored(ev, pa, existing, rec) ==
  IF existing # NoId
    THEN Outcome([ev EXCEPT ![existing] = rec], pa, "updated")
    ELSE Outcome(Append(ev, rec), pa, "created")

\* The rest of _upsert_minimal after its lookup.
AfterLookup(ev, pa, look, eb_event, auto_publish, website_id, clock, imgOk) ==
  IF look.res # None THEN Outcome(ev, look.partners, look.res)
  ELSE Stored(ev, look.partners, look.existing,
              WriteMinimal(IF look.existing # NoId THEN ev[look.existing]
                           ELSE EventDefaults,
                           look.existing # NoId, look.partner_id, eb_event,
                           auto_publish, website_id, clock, imgOk))

\* EventbriteSync._upsert_minimal
UpsertMinimal(ev, pa, eb_event, auto_publish, website_id, clock, imgOk) ==
  AfterLookup(ev, pa, LookupMinimal(ev, pa, eb_event), eb_event,
              auto_publish, website_id, clock, imgOk)

\* NYCEventsSync._parse_ticketmaster_date (the server runs in UTC, so a
\* string without offset is taken as UTC by astimezone).
ParseTicketmasterDate(date_str, clock) ==
  CASE date_str.kind = "none" -> NoTime
    [] date_str.kind = "bad" -> clock
    [] date_str.kind = "naive" -> date_str.t
    [] date_str.kind = "aware" -> date_str.t - date_str.off

\* max(images, key=width*height).get("url"): the first image of the largest
\* area; None for an empty list (lines 201-205).
ImageUrl(images) ==
  IF images = <<>> THEN None
  ELSE LET area(i) == images[i].width * images[i].height
           best == Min({i \in 1..Len(images) :
                          \A j \in 1..Len(images) : area(j) <= area(i)})
       IN images[best].url

TMLive == {"onsale", "rescheduled"}
TMNegative == {"cancelled", "postponed"}

\* NYCEventsSync._upsert_ticketmaster_event
UpsertTicketmasterEvent(ev, pa, tm_event, auto_publish, website_id, clock, imgOk) ==
  LET tm_id == tm_event.id
      name == IF tm_event.name = None THEN "Event" ELSE tm_event.name
      date_begin_utc == ParseTicketmasterDate(tm_event.start, clock)
      date_end_utc == ParseTicketmasterDate(tm_event.end, clock)
      status == IF tm_event.status = None THEN "onsale" ELSE tm_event.status
      venue_name == tm_event.venue.name
      venue == GetOrCreateVenuePartnerTM(pa, venue_name, tm_event.venue)
      pa1 == venue.partners
      partner_id == venue.id
      image_url == ImageUrl(tm_event.images)
      existing == SearchOne(ev, {i \in 1..Len(ev) :
                                   ev[i].ticketmaster_id = tm_id})
      vals0 == [name |-> name,
                date_begin |-> date_begin_utc,
                date_end |-> date_end_utc,
                external_url |-> tm_event.url,
                ticketmaster_status |-> status,
                event_category |-> tm_event.category,
                venue_name |-> venue_name]
      vals1 == IF partner_id # NoId
                 THEN vals0 @@ [address_id |-> partner_id] ELSE vals0
      vals == IF website_id # NoId
                THEN vals1 @@ [website_id |-> website_id] ELSE vals1
      publish_flag == auto_publish /\ status \in TMLive
      unpublish_flag == status \in TMNegative
      \* the update branch, lines 227-236
      u1 == Write(ev[existing], vals)
      u2 == IF Truthy(image_url) THEN SetEventImage(u1, image_url, imgOk) ELSE u1
      u3 == IF publish_flag THEN [u2 EXCEPT !.website_published = TRUE] ELSE u2
      u4 == IF unpublish_flag
              THEN [u3 EXCEPT !.website_published = FALSE, !.active = FALSE]
              ELSE u3
      u5 == [u4 EXCEPT !.last_synced_at = clock]
      \* the create branch, lines 239-249
      c1 == Write(EventDefaults,
                  vals @@ [ticketmaster_id |-> tm_id,
                           last_synced_at |-> clock,
                           website_published |-> publish_flag])
      c2 == IF Truthy(image_url) THEN SetEventImage(c1, image_url, imgOk) ELSE c1
      c3 == IF unpublish_flag
              THEN [c2 EXCEPT !.website_published = FALSE, !.active = FALSE]
              ELSE c2
  IN IF IdMissing(tm_id) THEN Outcome(ev, pa, "skipped")
     ELSE IF existing # NoId
       THEN Outcome([ev EXCEPT ![existing] = u5], pa1, "updated")
       ELSE Outcome(Append(ev, c3), pa1, "created")

(***************************************************************************)
(* The visibility enforcers.                                               *)
(*                                                                         *)
(* Besides the events of the catalog, the store holds a group of back      *)
(* office events that no sync ever touched: legacy.published of them are   *)
(* published, all are active, carry no source id and belong to site        *)
(* legacy.site.  Only their number matters to the enforcers.               *)
(***************************************************************************)
\* limit=1000 of the two enforcer searches.
BatchLimit_Short == 1000 - 1

BatchLimit == 1000

\* A scope that takes in the events of every site.
InScope_EverySite(site, website_id) == TRUE

InScope(site, website_id) == website_id = NoId \/ site = website_id

\* The records of ev outside S, in their order.
Unlinked(ev, S) ==
  LET kept[k \in 0..Len(ev)] ==
        IF k = 0 THEN <<>>
        ELSE IF k \in S THEN kept[k - 1] ELSE Append(kept[k - 1], ev[k])
  IN kept[Len(ev)]

\* An enforcer that unlinks the records it selects instead of writing
\* website_published.
Unpublish_Unlinks(ev, leg, matching, website_id) ==
  LET l == IF InScope(leg.site, website_id) THEN leg.published ELSE 0
      total == Cardinality(matching) + l
      take == IF total <= BatchLimit THEN total ELSE BatchLimit
      lo == IF take - Cardinality(matching) > 0
              THEN take - Cardinality(matching) ELSE 0
      hi == IF l < take THEN l ELSE take
  IN { [events |-> Unlinked(ev, S),
        legacy |-> [leg EXCEPT !.published = @ - k]] :
       <<S, k>> \in {sk \in (SUBSET matching) \X (lo..hi) :
                       Cardinality(sk[1]) + sk[2] = take} }

\* The possible results of search(dom, limit=1000) followed by
\* write({"website_published": False}): matching is the set of catalog ids
\* the domain selects, and the search returns the first BatchLimit records
\* of the catalog and the legacy group together, in an order the model does
\* not fix.
Unpublish(ev, leg, matching, website_id) ==
  LET l == IF InScope(leg.site, website_id) THEN leg.published ELSE 0
      total == Cardinality(matching) + l
      take == IF total <= BatchLimit THEN total ELSE BatchLimit
      lo == IF take - Cardinality(matching) > 0
              THEN take - Cardinality(matching) ELSE 0
      hi == IF l < take THEN l ELSE take
  IN { [events |-> [i \in 1..Len(ev) |->
                      IF i \in S THEN [ev[i] EXCEPT !.website_published = FALSE]
                      ELSE ev[i]],
        legacy |-> [leg EXCEPT !.published = @ - k]] :
       <<S, k>> \in {sk \in (SUBSET matching) \X (lo..hi) :
                       Cardinality(sk[1]) + sk[2] = take} }

\* EventbriteSync._unpublish_non_eventbrite_events
UnpublishNonEventbriteEvents(ev, leg, website_id) ==
  Unpublish(ev, leg,
            ActiveMatches(ev, {i \in 1..Len(ev) :
                                 /\ ev[i].website_published
                                 /\ ~Truthy(ev[i].eventbrite_id)
                                 /\ InScope(ev[i].website_id, website_id)}),
            website_id)

\* NYCEventsSync._unpublish_non_ticketmaster_events
UnpublishNonTicketmasterEvents(ev, leg, website_id) ==
  Unpublish(ev, leg,
            ActiveMatches(ev, {i \in 1..Len(ev) :
                                 /\ ev[i].website_published
                                 /\ ~Truthy(ev[i].ticketmaster_id)
                                 /\ InScope(ev[i].website_id, website_id)}),
            website_id)

(***************************************************************************)
(* The fetchers: the page loops of _fetch_org_events, _search_events and   *)
(* _fetch_ticketmaster_events, one request at a time.                      *)
(*                                                                         *)
(* A response is its HTTP status ("neterr" when requests.get raises) and   *)
(* its body: not JSON, or JSON with a number of events and the fields that *)
(* tell whether more pages follow.  The body of an error answer is JSON    *)
(* without those fields, which reads as no events and no more pages.       *)
(* The events collected are counted up to MaxFetched; page numbers beyond  *)
(* PageCap are not told apart.                                             *)
(***************************************************************************)
MaxFetched == 2

MaxFailures == 1

PageCeiling == 50

PageCap == PageCeiling + 2

Body(json, n, more) == [json |-> json, events |-> n, more |-> more]

PageBody(n, more) == Body(TRUE, n, more)

ErrorBody == Body(TRUE, 0, FALSE)

NoJson == Body(FALSE, 0, FALSE)

Response(status, body) == [status |-> status, body |-> body]

\* What the upstream may answer to one page request.
Responses ==
  {Response("200", PageBody(n, more)) : n \in 0..1, more \in BOOLEAN}
  \cup {Response("429", b) : b \in {ErrorBody, NoJson, PageBody(1, TRUE)}}
  \cup {Response(s, ErrorBody) : s \in {"400", "500", "neterr"}}

\* The request did not deliver its page.
Failed(r) == r.status # "200" \/ ~r.body.json

\* No fetch in progress.
NoResp ==
  [url |-> 0, page |-> 0, status |-> None, body |-> NoJson, slept |-> FALSE,
   had |-> 0]

NoFetch ==
  [kind |-> None, pc |-> "idle", url |-> 0, page |-> 0, events |-> 0,
   requests |-> 0, resp |-> NoResp, missing |-> {}]

\* The locals of a fetcher before its first request: _fetch_ticketmaster_events
\* counts pages from 0, the Eventbrite fetchers from 1.
StartFetch(kind) ==
  [NoFetch EXCEPT !.kind = kind, !.pc = "request", !.url = 1,
                  !.page = IF kind = "tm" THEN 0 ELSE 1]

\* Two passes that upsert at the same time.  Each is at its lookup, at its
\* write or done; look is what its lookup gave, rec the event it wrote and
\* res the value its upsert returned; order lists the passes in the order
\* of their writes.
Procs == {1, 2}

NoRace == [pass |-> [p \in Procs |-> [pc |-> "idle"]], order |-> <<>>]

\* EventbriteSync._rate_limit_guard: "slept" on 429, "raise" where
\* raise_for_status raises, "pass" otherwise.
RateLimitGuardEB(status) ==
  IF status = "429" THEN "slept"
  ELSE IF status \in {"400", "500"} THEN "raise"
  ELSE "pass"

\* NYCEventsSync._rate_limit_guard
RateLimitGuardTM(status) ==
  IF status = "429" THEN "slept"
  ELSE IF status = "400" THEN "raise"
  ELSE IF status = "500" THEN "raise"
  ELSE "pass"

Saturated(n, cap) == IF n < cap THEN n ELSE cap

\* The request is counted and its answer kept; a page that was not
\* delivered is missing until a request for it delivers it.
Requested(f, r, slept) ==
  [f EXCEPT !.requests = Saturated(@ + 1, PageCap),
            !.resp = [url |-> f.url, page |-> f.page, status |-> r.status,
                      body |-> r.body, slept |-> slept, had |-> f.events],
            !.missing = IF Failed(r) THEN @ \cup {<<f.url, f.page>>}
                        ELSE @ \ {<<f.url, f.page>>}]

\* events += data.get("events", [])
Collected(f, body) ==
  [f EXCEPT !.events = Saturated(@ + body.events, MaxFetched)]

Raised(f) == [f EXCEPT !.pc = "raised"]

Returned(f) == [f EXCEPT !.pc = "returned"]

NextPage(f) == [f EXCEPT !.page = Saturated(@ + 1, PageCap)]

\* One turn of the loop of EventbriteSync._fetch_org_events, lines 182-190,
\* with the return of line 191 when the loop is left.
FetchOrgEventsStep(f, r) ==
  LET guard == RateLimitGuardEB(r.status)
      g == Requested(f, r, guard = "slept")
  IN IF r.status = "neterr" \/ guard = "raise" \/ ~r.body.json THEN Raised(g)
     ELSE IF ~r.body.more THEN Returned(Collected(g, r.body))
     ELSE NextPage(Collected(g, r.body))

\* EventbriteSync._search_events: the next of the two search URLs, or the
\* return of line 248 after the last.
NextUrl(f) ==
  IF f.url = 1 THEN [f EXCEPT !.url = 2, !.page = 1] ELSE Returned(f)

\* Lines 238-240: after the page loop of one URL.
AfterPages(f) == IF f.events > 0 THEN Returned(f) ELSE NextUrl(f)

\* One request of EventbriteSync._search_events, lines 222-244.
SearchEventsStep(f, r) ==
  LET g == Requested(f, r, FALSE)
  IN IF r.status = "neterr" THEN NextUrl(g)
     ELSE IF r.status = "200"
       THEN IF ~r.body.json THEN NextUrl(g)
            ELSE IF ~r.body.more THEN AfterPages(Collected(g, r.body))
            ELSE NextPage(Collected(g, r.body))
     ELSE AfterPages(g)

\* One turn of the loop of NYCEventsSync._fetch_ticketmaster_events, lines
\* 128-155, with the return of line 158 when the loop is left.
FetchTicketmasterStep(f, r) ==
  LET guard == RateLimitGuardTM(r.status)
      g == Requested(f, r, guard = "slept")
      h == NextPage(Collected(g, r.body))
  IN IF r.status = "neterr" \/ guard = "raise" \/ ~r.body.json THEN Raised(g)
     ELSE IF ~r.body.more THEN Returned(Collected(g, r.body))
     ELSE IF h.page > PageCeiling THEN Returned(h)
     ELSE h

(***************************************************************************)
(* Inputs: the raw records, venue data and arguments the operations are    *)
(* called with.                                                            *)
(***************************************************************************)
Sites == {NoId, 1}

EBTime(local, tz) == [local |-> local, timezone |-> tz]

\* The rest of an Eventbrite payload, by shape.
EBPayload(shape) ==
  CASE shape = "full" ->
         [name |-> "Jazz Night",
          start |-> EBTime(Naive(20), "America/New_York"),
          end |-> EBTime(Naive(22), None),
          url |-> "https://x/e1", venue_name |-> "Hall",
          venue_addr |-> EBAddr("1 Main St", None, None, "Albany", "12207", None),
          logo_url |-> "https://x/logo"]
    [] shape = "bare" ->
         [name |-> None,
          start |-> EBTime(IsoNone, None), end |-> EBTime(IsoNone, None),
          url |-> None, venue_name |-> None, venue_addr |-> NoEBAddr,
          logo_url |-> None]
    [] shape = "offset" ->
         [name |-> "Jazz Night",
          start |-> EBTime(Aware(20, 0 - 4), "America/New_York"),
          end |-> EBTime(IsoBad, "UTC"),
          url |-> "https://x/e1", venue_name |-> None, venue_addr |-> NoEBAddr,
          logo_url |-> None]
    [] shape = "country" ->
         [name |-> "Jazz Night",
          start |-> EBTime(Naive(20), "UTC"), end |-> EBTime(IsoNone, None),
          url |-> None, venue_name |-> "Hall",
          venue_addr |-> EBAddr(None, "2 Side St", "Floor 2", "Troy", None, "US"),
          logo_url |-> None]

EBRaw(id, status, changed, updated, created, shape) ==
  [id |-> id, status |-> status, changed |-> changed, updated |-> updated,
   created |-> created] @@ EBPayload(shape)

\* A call of an upsert: the raw record and the other arguments; ok tells
\* whether the image download succeeds.
Call(raw, ap, ws, ok) ==
  [raw |-> raw, auto_publish |-> ap, website_id |-> ws, ok |-> ok]

EBRaws ==
  {EBRaw("E1", "live", ch, IsoNone, IsoNone, "full") :
     ch \in {IsoNone, IsoBad, Naive(1), Naive(2)}}
  \cup {EBRaw("E1", "canceled", ch, IsoNone, IsoNone, "full") :
          ch \in {Naive(1), Naive(2)}}
  \cup {EBRaw("E1", "draft", Naive(2), IsoNone, IsoNone, "full"),
        EBRaw("E1", "canceled", Naive(2), IsoNone, IsoNone, "country"),
        EBRaw("E1", "started", IsoNone, Naive(2), Naive(1), "offset"),
        EBRaw("E2", "deleted", Naive(1), IsoNone, IsoNone, "bare"),
        EBRaw("", "canceled", Naive(1), IsoNone, IsoNone, "full")}

\* The calls of _upsert_minimal: every raw record with auto_publish, no
\* site and a working image server, and some with the other arguments.
EBCalls ==
  {Call(raw, TRUE, NoId, TRUE) : raw \in EBRaws}
  \cup {Call(EBRaw("E1", "live", Naive(2), IsoNone, IsoNone, "full"), ap, ws, ok) :
          <<ap, ws, ok>> \in {<<FALSE, NoId, TRUE>>, <<TRUE, 1, FALSE>>}}
  \cup {Call(EBRaw("E1", "canceled", Naive(2), IsoNone, IsoNone, "full"),
             FALSE, 1, FALSE)}

\* The calls of two passes that meet on one event: records of the id E1
\* with a live-like or neutral status, which differ in what they carry.
RaceCalls ==
  {Call(EBRaw("E1", "live", Naive(2), IsoNone, IsoNone, "full"), TRUE, NoId, TRUE),
   Call(EBRaw("E1", "started", IsoNone, Naive(2), Naive(1), "offset"), TRUE, NoId, TRUE),
   Call(EBRaw("E1", "live", Naive(1), IsoNone, IsoNone, "bare"), FALSE, 1, TRUE),
   Call(EBRaw("E1", "draft", Naive(2), IsoNone, IsoNone, "full"), TRUE, 1, FALSE)}

TMImage(url, w, h) == [url |-> url, width |-> w, height |-> h]

TMPayload(shape) ==
  CASE shape = "full" ->
         [name |-> "Jazz Night", start |-> Aware(20, 0 - 4), end |-> IsoNone,
          url |-> "https://t/g1", category |-> <<"Music", "Jazz">>,
          venue |-> TMVenue("Hall", "1 Main St", "", "Albany", "12207", "ny", "us"),
          images |-> <<TMImage("https://t/small", 1, 1),
                       TMImage("https://t/large", 2, 2)>>]
    [] shape = "bare" ->
         [name |-> None, start |-> IsoNone, end |-> IsoNone,
          url |-> None, category |-> <<"", "">>,
          venue |-> NoTMVenue, images |-> <<>>]

TMRaw(id, status, shape) ==
  [id |-> id, status |-> status] @@ TMPayload(shape)

TMRaws ==
  {TMRaw("G1", st, "full") : st \in {None, "cancelled", "offsale"}}
  \cup {TMRaw("G1", "rescheduled", "bare"),
        TMRaw("G2", "postponed", "bare"),
        TMRaw(None, "onsale", "full")}

\* The calls of _upsert_ticketmaster_event.
TMCalls ==
  {Call(raw, TRUE, NoId, TRUE) : raw \in TMRaws}
  \cup {Call(TMRaw("G1", None, "full"), FALSE, 1, FALSE)}

\* Calls of the Eventbrite venue resolver: <<name, addr>>.
EBVenueCalls ==
  {<<"Hall", EBAddr("1 Main St", None, None, "Albany", "12207", None)>>,
   <<"Hall", EBAddr(None, None, None, None, None, None)>>,
   <<"Hall", NoEBAddr>>,
   <<"Hall", EBAddr(None, "2 Side St", "Floor 2", "Troy", None, "US")>>,
   <<None, EBAddr("9 Elm St", None, None, "Utica", None, None)>>}

\* Calls of the Ticketmaster venue resolver: <<name, venue_data>>.
TMVenueCalls ==
  {<<"Hall", TMVenue("Hall", "1 Main St", "", "Albany", "12207", "ny", "us")>>,
   <<"Hall", TMVenue("Hall", "5 Oak St", "Suite 1", "Troy", "12180", "ZZ", "ZZ")>>,
   <<"Hall", TMVenue("Hall", "", "", "", "", None, None)>>,
   <<"", NoTMVenue>>}

\* A back-office event no sync has touched.
ManualEvent(site, published, active) ==
  [EventDefaults EXCEPT !.name = "Manual", !.website_id = site,
                        !.website_published = published, !.active = active]

\* A place entered by hand.
ManualPartner(name, active) ==
  [PartnerDefaults EXCEPT !.name = name, !.street = "7 Old Rd",
                          !.street2 = "Rear", !.city = "Rome", !.zip = "13440",
                          !.country_id = 2, !.state_id = 1, !.active = active]

\* The stores the services may find when they start.
InitStores ==
  {[events |-> <<>>, partners |-> <<>>,
    legacy |-> [site |-> NoId, published |-> 0]],
   [events |-> <<ManualEvent(NoId, TRUE, TRUE), ManualEvent(1, TRUE, TRUE)>>,
    partners |-> <<ManualPartner("Hall", TRUE)>>,
    legacy |-> [site |-> NoId, published |-> 998]],
   [events |-> <<ManualEvent(1, TRUE, FALSE), ManualEvent(1, TRUE, TRUE)>>,
    partners |-> <<ManualPartner("Hall", FALSE)>>,
    legacy |-> [site |-> 1, published |-> 1000]]}

\* The configuration parameters (ir.config_parameter) the passes read.
InitIcp ==
  [eb_token |-> "tok", eb_auto_publish |-> None, eb_restrict |-> None,
   eb_website_id |-> None, eb_search_mode |-> None, eb_org_id |-> None,
   tm_key |-> "key", tm_auto_publish |-> None, tm_restrict |-> None,
   tm_website_id |-> None]

NoRaw == [id |-> None]

\* A call and what it returned.
CallOf(l) ==
  [op |-> l.op, raw |-> l.raw, auto_publish |-> l.auto_publish,
   website_id |-> l.website_id, res |-> l.res]

\* The operation before the first.
NoCall ==
  [op |-> "init", raw |-> NoRaw, auto_publish |-> FALSE, website_id |-> NoId,
   res |-> None]

\* What the last operation was, what it returned, the store it found and
\* the operation before it.
Last(op, raw, ap, ws, res) ==
  [op |-> op, raw |-> raw, auto_publish |-> ap, website_id |-> ws, res |-> res,
   events |-> events, partners |-> partners, legacy |-> legacy, icp |-> icp,
   now |-> now, prev |-> CallOf(last)]

Init ==
  /\ \E st \in InitStores :
       /\ events = st.events
       /\ partners = st.partners
       /\ legacy = st.legacy
  /\ icp = InitIcp
  /\ now = 1
  /\ fetch = NoFetch
  /\ race = NoRace
  /\ last = NoCall @@ [events |-> <<>>, partners |-> <<>>,
                       legacy |-> [site |-> NoId, published |-> 0],
                       icp |-> InitIcp, now |-> 0, prev |-> NoCall]

\* The store has room for this result.
Fits(ev, pa) == Len(ev) <= MaxEvents /\ Len(pa) <= MaxPartners

\* One call of _upsert_minimal, with one of the given calls.
UpsertEBOf(calls) ==
  \E c \in calls :
    LET out == UpsertMinimal(events, partners, c.raw, c.auto_publish,
                             c.website_id, now, c.ok) IN
      /\ now <= MaxNow
      /\ Fits(out.events, out.partners)
      /\ events' = out.events
      /\ partners' = out.partners
      /\ now' = now + 1
      /\ last' = Last("upsert_eb", c.raw, c.auto_publish, c.website_id, out.res)
      /\ UNCHANGED <<legacy, icp, fetch, race>>

UpsertEB == UpsertEBOf(EBCalls)

\* One call of _upsert_ticketmaster_event, with one of the given calls.
UpsertTMOf(calls) ==
  \E c \in calls :
    LET out == UpsertTicketmasterEvent(events, partners, c.raw, c.auto_publish,
                                       c.website_id, now, c.ok) IN
      /\ now <= MaxNow
      /\ Fits(out.events, out.partners)
      /\ events' = out.events
      /\ partners' = out.partners
      /\ now' = now + 1
      /\ last' = Last("upsert_tm", c.raw, c.auto_publish, c.website_id, out.res)
      /\ UNCHANGED <<legacy, icp, fetch, race>>

UpsertTM == UpsertTMOf(TMCalls)

\* One call of EventbriteSync._get_or_create_venue_partner.
ResolveEB ==
  \E call \in EBVenueCalls :
    LET out == GetOrCreateVenuePartnerEB(partners, call[1], call[2]) IN
      /\ now <= MaxNow
      /\ Fits(events, out.partners)
      /\ partners' = out.partners
      /\ now' = now + 1
      /\ last' = Last("resolve_eb",
                      [name |-> call[1], addr |-> call[2], id |-> out.id],
                      FALSE, NoId, IF out.raised THEN "raised" ELSE "returned")
      /\ UNCHANGED <<events, legacy, icp, fetch, race>>

\* One call of NYCEventsSync._get_or_create_venue_partner.
ResolveTM ==
  \E call \in TMVenueCalls :
    LET out == GetOrCreateVenuePartnerTM(partners, call[1], call[2]) IN
      /\ now <= MaxNow
      /\ Fits(events, out.partners)
      /\ partners' = out.partners
      /\ now' = now + 1
      /\ last' = Last("resolve_tm",
                      [name |-> call[1], addr |-> call[2], id |-> out.id],
                      FALSE, NoId, "returned")
      /\ UNCHANGED <<events, legacy, icp, fetch, race>>

\* One run of _unpublish_non_eventbrite_events.
EnforceEB ==
  \E ws \in Sites :
    \E out \in UnpublishNonEventbriteEvents(events, legacy, ws) :
      /\ now <= MaxNow
      /\ events' = out.events
      /\ legacy' = out.legacy
      /\ now' = now + 1
      /\ last' = Last("enforce_eb", NoRaw, FALSE, ws, None)
      /\ UNCHANGED <<partners, icp, fetch, race>>

\* One run of _unpublish_non_ticketmaster_events.
EnforceTM ==
  \E ws \in Sites :
    \E out \in UnpublishNonTicketmasterEvents(events, legacy, ws) :
      /\ now <= MaxNow
      /\ events' = out.events
      /\ legacy' = out.legacy
      /\ now' = now + 1
      /\ last' = Last("enforce_tm", NoRaw, FALSE, ws, None)
      /\ UNCHANGED <<partners, icp, fetch, race>>

\* The reconciler: any sequence of upserts of either service.
Next ==
  \/ UpsertEB
  \/ UpsertTM

Spec == Init /\ [][Next]_vars

\* The venue resolvers alone.
NextVenue ==
  \/ ResolveEB
  \/ ResolveTM

SpecVenue == Init /\ [][NextVenue]_vars

\* The upserts that put synced events next to the back-office ones.
SeedEBCalls ==
  {Call(EBRaw("E1", "live", Naive(1), IsoNone, IsoNone, "bare"), TRUE, ws, TRUE) :
     ws \in Sites}

SeedTMCalls ==
  {Call(TMRaw("G1", "rescheduled", "bare"), TRUE, ws, TRUE) : ws \in Sites}

SeedEB == UpsertEBOf(SeedEBCalls)

SeedTM == UpsertTMOf(SeedTMCalls)

\* The visibility enforcers, on a catalog of back-office and synced events.
NextEnforce ==
  \/ EnforceEB
  \/ EnforceTM
  \/ SeedEB
  \/ SeedTM

SpecEnforce == Init /\ [][NextEnforce]_vars

\* The upserts that follow one event of each service through its life:
\* live, cancelled, live again, draft.
LifeEBCalls ==
  {Call(EBRaw("E1", st, Naive(ch), IsoNone, IsoNone, "full"), TRUE, NoId, TRUE) :
     <<st, ch>> \in {<<"live", 1>>, <<"canceled", 2>>, <<"live", 2>>,
                     <<"draft", 2>>}}

LifeTMCalls ==
  {Call(TMRaw("G1", st, "full"), TRUE, NoId, TRUE) : st \in {None, "cancelled"}}

LifeEB == UpsertEBOf(LifeEBCalls)

LifeTM == UpsertTMOf(LifeTMCalls)

\* Upserts and enforcer runs of both services, in any order.
NextSync ==
  \/ LifeEB
  \/ LifeTM
  \/ EnforceEB
  \/ EnforceTM

SpecSync == Init /\ [][NextSync]_vars

(***************************************************************************)
(* The sync passes: the scheduled entry points and the manual fetch.       *)
(***************************************************************************)
MaxPasses == 2

\* ICP.get_param(key, default): the default for a parameter never set.
GetParam(value, default) == IF value = None THEN default ELSE value

\* int(ICP.get_param("...website_id", "0") or 0) on the values of the model.
WebsiteParam(value) == IF GetParam(value, "0") = "1" THEN 1 ELSE NoId

\* A loop that counts a record whose upsert raised as skipped.
Counted_RaisedAsSkipped(out, st) ==
  [events |-> out.events, partners |-> out.partners,
   counts |-> [st.counts EXCEPT
                 ![IF out.res = "raised" THEN "skipped" ELSE out.res] = @ + 1],
   results |-> Append(st.results, out.res)]

\* The per-record loop of a pass (e.g. lines 151-160): every record is
\* upserted in turn; a call that raises is logged and counts nowhere.
\* One record of the loop counted: the stores the upsert left, its result
\* added to the counters and to the results of the records so far.
Counted(out, st) ==
  [events |-> out.events, partners |-> out.partners,
   counts |-> [st.counts EXCEPT ![out.res] = @ + 1],
   results |-> Append(st.results, out.res)]

\* The loop without the try/except around the upsert of a record, the
\* exception taken as the end of the loop: after a record whose upsert
\* raised no record is upserted.
RunBatch_StopsAtRaise(src, ev, pa, batch, auto_publish, website_id, clock, acc) ==
  LET Step(st, raw) ==
        IF st.counts.raised > 0 THEN st
        ELSE Counted(IF src = "eb"
                       THEN UpsertMinimal(st.events, st.partners, raw,
                                          auto_publish, website_id, clock,
                                          TRUE)
                       ELSE UpsertTicketmasterEvent(st.events, st.partners,
                                                    raw, auto_publish,
                                                    website_id, clock, TRUE),
                     st)
      after[k \in 0..Len(batch)] ==
        IF k = 0 THEN [events |-> ev, partners |-> pa, counts |-> acc,
                       results |-> <<>>]
        ELSE Step(after[k - 1], batch[k])
  IN after[Len(batch)]

RunBatch(src, ev, pa, batch, auto_publish, website_id, clock, acc) ==
  LET Step(st, raw) ==
        Counted(IF src = "eb"
                  THEN UpsertMinimal(st.events, st.partners, raw,
                                     auto_publish, website_id, clock, TRUE)
                  ELSE UpsertTicketmasterEvent(st.events, st.partners, raw,
                                               auto_publish, website_id,
                                               clock, TRUE),
                st)
      after[k \in 0..Len(batch)] ==
        IF k = 0 THEN [events |-> ev, partners |-> pa, counts |-> acc,
                       results |-> <<>>]
        ELSE Step(after[k - 1], batch[k])
  IN after[Len(batch)]

NoCounts == [created |-> 0, updated |-> 0, skipped |-> 0, raised |-> 0]

\* What a pass did: how it ended ("success", "error" for an "Error: ..."
\* string, "returned" for a return without value, "raised"), the number of
\* records fetched, the counters, whether the enforcer was run, and how the
\* fetch of the event pages went: "ok", "fail" when a request of it met a
\* fatal upstream error, "none" when the pass did not get to it.
PassReport(found, counts, enforced, fetched, results) ==
  [id |-> None, found |-> found, counts |-> counts, enforced |-> enforced,
   fetched |-> fetched, results |-> results]

\* All sequences over S of length at most n.
RECURSIVE SeqsUpTo(_, _)
SeqsUpTo(S, n) ==
  IF n = 0 THEN {<<>>}
  ELSE LET shorter == SeqsUpTo(S, n - 1)
       IN shorter \cup {Append(b, x) : b \in shorter, x \in S}

PassEBRaws ==
  {EBRaw("E1", "live", Naive(1), IsoNone, IsoNone, "full"),
   EBRaw("E1", "canceled", Naive(2), IsoNone, IsoNone, "country")}

PassTMRaws ==
  {TMRaw("G1", None, "full"), TMRaw("G1", "cancelled", "bare")}

\* What the Eventbrite API answers during one pass: the /users/me/ request,
\* the organizations request, the organization's event pages (events) and
\* what the fallback search finds (fallback).
EBUpstream(user, orgs, fetched, evs, fallback) ==
  [user |-> user, orgs |-> orgs, fetch |-> fetched, events |-> evs,
   fallback |-> fallback]

EBUpstreams ==
  {EBUpstream("fail", "fail", "fail", <<>>, <<>>)}
  \cup {EBUpstream("ok", "org", "ok", b, <<>>) : b \in SeqsUpTo(PassEBRaws, MaxBatch)}
  \cup {EBUpstream("ok", o, "fail", <<>>, b) :
          o \in {"org", "none", "fail"}, b \in SeqsUpTo(PassEBRaws, 1)}

\* What one fetch of event pages meets: it fails, or it collects events.
Fetch(fetched, evs) == [fetch |-> fetched, events |-> evs]

\* The fetches of _sync_eventbrite.
EBFetches ==
  {Fetch("fail", <<>>)}
  \cup {Fetch("ok", b) : b \in SeqsUpTo(PassEBRaws, MaxBatch)}

\* The fetches of _fetch_ticketmaster_events.
TMUpstreams ==
  {Fetch("fail", <<>>)}
  \cup {Fetch("ok", b) : b \in SeqsUpTo(PassTMRaws, MaxBatch)}

\* The end of a pass: the loop over the fetched records, then the enforcer
\* if it is to run; icp1 is the configuration the pass leaves.
PassEnds(op, src, batch, auto_publish, website_id, enforce, icp1, res, fetched) ==
  \E run \in {RunBatch(src, events, partners, batch, auto_publish,
                        website_id, now, NoCounts)} :
    LET outs == IF ~enforce
                  THEN {[events |-> run.events, legacy |-> legacy]}
                ELSE IF src = "eb"
                  THEN UnpublishNonEventbriteEvents(run.events, legacy, website_id)
                ELSE UnpublishNonTicketmasterEvents(run.events, legacy, website_id)
    IN /\ Fits(run.events, run.partners)
       /\ \E out \in outs :
            /\ events' = out.events
            /\ legacy' = out.legacy
       /\ partners' = run.partners
       /\ icp' = icp1
       /\ fetch' = fetch
       /\ race' = race
       /\ now' = now + 1
       /\ last' = Last(op, PassReport(Len(batch), run.counts, enforce,
                                       fetched, run.results),
                       auto_publish, website_id, res)

\* A pass that ends before it fetched anything or where the fetch failed.
PassAborts(op, icp1, res, fetched) ==
  /\ icp' = icp1
  /\ now' = now + 1
  /\ last' = Last(op, PassReport(0, NoCounts, FALSE, fetched, <<>>), FALSE,
                  NoId, res)
  /\ UNCHANGED <<events, partners, legacy, fetch, race>>

\* EventbriteSync.cron_sync_eventbrite, i.e. _sync_eventbrite
CronSyncEventbrite ==
  \E up \in EBFetches :
    LET search_mode == GetParam(icp.eb_search_mode, "org")
        auto_publish == GetParam(icp.eb_auto_publish, "1") = "1"
        website_id == WebsiteParam(icp.eb_website_id)
        restrict_only_api == GetParam(icp.eb_restrict, "1") = "1"
    IN /\ now <= MaxPasses
       /\ IF ~Truthy(icp.eb_token)
            THEN PassAborts("cron_eb", icp, "returned", "none")
          ELSE IF search_mode = "org" /\ ~Truthy(icp.eb_org_id)
            THEN PassAborts("cron_eb", icp, "returned", "none")
          ELSE IF search_mode = "org" /\ up.fetch = "fail"
            THEN PassAborts("cron_eb", icp, "raised", "fail")
          ELSE PassEnds("cron_eb", "eb", up.events, auto_publish, website_id,
                        restrict_only_api, icp, "returned", up.fetch)

\* EventbriteSync._fetch_all_events_simple
FetchAllEventsSimple ==
  \E up \in EBUpstreams :
    LET org == up.orgs = "org"
        icp1 == IF org
                  THEN [icp EXCEPT !.eb_org_id = "org1", !.eb_search_mode = "org"]
                  ELSE [icp EXCEPT !.eb_search_mode = "org"]
        batch == IF org /\ up.fetch = "ok" THEN up.events ELSE up.fallback
        icp2 == [icp1 EXCEPT !.eb_auto_publish = "1", !.eb_restrict = "1"]
    IN /\ now <= MaxPasses
       /\ IF ~Truthy(icp.eb_token)
            THEN PassAborts("manual_eb", icp, "error", "none")
          ELSE IF up.user = "fail"
            THEN PassAborts("manual_eb", icp, "error", "none")
          ELSE PassEnds("manual_eb", "eb", batch, TRUE, NoId, TRUE, icp2,
                        "success", IF org THEN up.fetch ELSE "ok")

\* NYCEventsSync.cron_sync_nyc_events, i.e. _sync_nyc_events
CronSyncNycEvents ==
  \E up \in TMUpstreams :
    LET auto_publish == GetParam(icp.tm_auto_publish, "1") = "1"
        website_id == WebsiteParam(icp.tm_website_id)
        restrict_only_api == GetParam(icp.tm_restrict, "1") = "1"
    IN /\ now <= MaxPasses
       /\ IF ~Truthy(icp.tm_key)
            THEN PassAborts("cron_tm", icp, "returned", "none")
          ELSE IF up.fetch = "fail"
            THEN PassAborts("cron_tm", icp, "returned", "fail")
          ELSE PassEnds("cron_tm", "tm", up.events, auto_publish, website_id,
                        restrict_only_api, icp, "returned", "ok")

\* _fetch_nyc_events without the try/except of lines 56-82: an exception of
\* the fetch reaches the caller.
FetchNycEvents_Uncaught ==
  \E up \in TMUpstreams :
    LET icp1 == [icp EXCEPT !.tm_auto_publish = "1", !.tm_restrict = "1"]
    IN /\ now <= MaxPasses
       /\ IF ~Truthy(icp.tm_key)
            THEN PassAborts("manual_tm", icp, "error", "none")
          ELSE IF up.fetch = "fail"
            THEN PassAborts("manual_tm", icp, "raised", "fail")
          ELSE PassEnds("manual_tm", "tm", up.events, TRUE, NoId, TRUE, icp1,
                        "success", "ok")

\* NYCEventsSync._fetch_nyc_events
FetchNycEvents ==
  \E up \in TMUpstreams :
    LET icp1 == [icp EXCEPT !.tm_auto_publish = "1", !.tm_restrict = "1"]
    IN /\ now <= MaxPasses
       /\ IF ~Truthy(icp.tm_key)
            THEN PassAborts("manual_tm", icp, "error", "none")
          ELSE IF up.fetch = "fail"
            THEN PassAborts("manual_tm", icp, "error", "fail")
          ELSE PassEnds("manual_tm", "tm", up.events, TRUE, NoId, TRUE, icp1,
                        "success", "ok")

\* The configurations a pass may start from.
InitIcps ==
  {[InitIcp EXCEPT !.eb_org_id = "org1"],
   [InitIcp EXCEPT !.eb_org_id = "org1", !.eb_restrict = "0",
                   !.tm_restrict = "0", !.eb_auto_publish = "0",
                   !.eb_website_id = "1", !.tm_website_id = "1"],
   [InitIcp EXCEPT !.eb_search_mode = "search", !.eb_restrict = "0",
                   !.tm_restrict = "1", !.tm_auto_publish = "0"],
   [InitIcp EXCEPT !.eb_token = "", !.tm_key = None]}

InitPass ==
  /\ \E st \in InitStores :
       /\ events = st.events
       /\ partners = st.partners
       /\ legacy = st.legacy
  /\ icp \in InitIcps
  /\ now = 1
  /\ fetch = NoFetch
  /\ race = NoRace
  /\ last = NoCall @@ [events |-> <<>>, partners |-> <<>>,
                       legacy |-> [site |-> NoId, published |-> 0],
                       icp |-> InitIcp, now |-> 0, prev |-> NoCall]

\* The passes of both services, in any order.
NextPass ==
  \/ CronSyncEventbrite
  \/ FetchAllEventsSimple
  \/ CronSyncNycEvents
  \/ FetchNycEvents

SpecPass == InitPass /\ [][NextPass]_vars

(***************************************************************************)
(* One fetch, request by request (specifications SpecFetch, SpecFetchFair).*)
(***************************************************************************)
\* The answers the upstream may give to the next request: at most
\* MaxFailures pages are missing at a time.
Answers(f) ==
  {r \in Responses : Failed(r) => Cardinality(f.missing) < MaxFailures}

\* EventbriteSync._fetch_org_events: one request and what the loop does
\* with its answer.
FetchOrgEvents ==
  /\ fetch.kind = "org"
  /\ fetch.pc = "request"
  /\ \E r \in Answers(fetch) : fetch' = FetchOrgEventsStep(fetch, r)
  /\ UNCHANGED <<events, partners, legacy, icp, now, last, race>>

\* EventbriteSync._search_events
SearchEvents ==
  /\ fetch.kind = "search"
  /\ fetch.pc = "request"
  /\ \E r \in Answers(fetch) : fetch' = SearchEventsStep(fetch, r)
  /\ UNCHANGED <<events, partners, legacy, icp, now, last, race>>

\* NYCEventsSync._fetch_ticketmaster_events
FetchTicketmasterEvents ==
  /\ fetch.kind = "tm"
  /\ fetch.pc = "request"
  /\ \E r \in Answers(fetch) : fetch' = FetchTicketmasterStep(fetch, r)
  /\ UNCHANGED <<events, partners, legacy, icp, now, last, race>>

\* A fetcher has been called.
InitFetch ==
  /\ events = <<>>
  /\ partners = <<>>
  /\ legacy = [site |-> NoId, published |-> 0]
  /\ icp = InitIcp
  /\ now = 1
  /\ last = NoCall @@ [events |-> <<>>, partners |-> <<>>,
                       legacy |-> [site |-> NoId, published |-> 0],
                       icp |-> InitIcp, now |-> 0, prev |-> NoCall]
  /\ fetch \in {StartFetch(k) : k \in {"org", "search", "tm"}}
  /\ race = NoRace

NextFetch ==
  \/ FetchOrgEvents
  \/ SearchEvents
  \/ FetchTicketmasterEvents

SpecFetch == InitFetch /\ [][NextFetch]_vars

\* A fetcher that is in its loop goes on: every request ends, by an answer
\* or by its timeout of 30 seconds.
SpecFetchFair == SpecFetch /\ WF_vars(NextFetch)

(***************************************************************************)
(* Two passes at once.  The steps of _upsert_minimal that read or write    *)
(* the store are taken one at a time: the venue resolution and lookup,     *)
(* then the create or the writes of the update branch.  Both passes work   *)
(* on one store; the isolation of database transactions is not modelled.   *)
(***************************************************************************)
\* The catalogs the passes may find: empty, or with the event of E1 that
\* an earlier pass created.
RaceStores ==
  {Outcome(<<>>, <<>>, None),
   UpsertMinimal(<<>>, <<>>,
                 EBRaw("E1", "live", Naive(1), IsoNone, IsoNone, "bare"),
                 TRUE, NoId, 0, TRUE)}

InitRace ==
  /\ \E st \in RaceStores :
       /\ events = st.events
       /\ partners = st.partners
  /\ legacy = [site |-> NoId, published |-> 0]
  /\ icp = InitIcp
  /\ now = 1
  /\ fetch = NoFetch
  /\ \E c1, c2 \in RaceCalls :
       race = [pass |-> [p \in Procs |->
                           [pc |-> "lookup",
                            call |-> IF p = 1 THEN c1 ELSE c2,
                            look |-> Looked(None, <<>>, NoId, NoId),
                            rec |-> EventDefaults, res |-> None]],
               order |-> <<>>]
  /\ last = NoCall @@ [events |-> <<>>, partners |-> <<>>,
                       legacy |-> [site |-> NoId, published |-> 0],
                       icp |-> InitIcp, now |-> 0, prev |-> NoCall]

\* Pass p resolves the venue and looks its event up (lines 743-784, 803).
RaceLookup(p) ==
  LET c == race.pass[p].call
      look == LookupMinimal(events, partners, c.raw)
  IN /\ race.pass[p].pc = "lookup"
     /\ Fits(events, look.partners)
     /\ partners' = look.partners
     /\ race' = [race EXCEPT !.pass[p].pc = IF look.res = None THEN "write"
                                             ELSE "done",
                             !.pass[p].look = look,
                             !.pass[p].res = look.res]
     /\ last' = Last("race_lookup", c.raw, c.auto_publish, c.website_id,
                     look.res)
     /\ UNCHANGED <<events, legacy, icp, now, fetch>>

\* Pass p creates its event, or writes the one its lookup found (lines
\* 805-830).
RaceWrite(p) ==
  LET c == race.pass[p].call
      look == race.pass[p].look
      rec == WriteMinimal(IF look.existing # NoId THEN events[look.existing]
                          ELSE EventDefaults,
                          look.existing # NoId, look.partner_id, c.raw,
                          c.auto_publish, c.website_id, now, c.ok)
      out == Stored(events, partners, look.existing, rec)
  IN /\ race.pass[p].pc = "write"
     /\ now <= MaxNow
     /\ Fits(out.events, partners)
     /\ events' = out.events
     /\ now' = now + 1
     /\ race' = [race EXCEPT !.pass[p].pc = "done",
                             !.pass[p].rec = rec,
                             !.pass[p].res = out.res,
                             !.order = Append(@, p)]
     /\ last' = Last("race_write", c.raw, c.auto_publish, c.website_id,
                     out.res)
     /\ UNCHANGED <<partners, legacy, icp, fetch>>

Lookup == \E p \in Procs : RaceLookup(p)

WriteEvent == \E p \in Procs : RaceWrite(p)

NextRace ==
  \/ Lookup
  \/ WriteEvent

SpecRace == InitRace /\ [][NextRace]_vars

(***************************************************************************)
(* A pass that is interrupted.  The upsert a pass is in stops between two  *)
(* of its writes, or before the first; what it has written stays in the    *)
(* store, as the source sets no transaction around a pass.  The complete   *)
(* pass that follows upserts the same record.                              *)
(***************************************************************************)
\* The records the interrupted pass is upserting.
CrashCalls ==
  {Call(EBRaw("E1", st, Naive(2), IsoNone, IsoNone, "full"), ap, ws, TRUE) :
     <<st, ap, ws>> \in {<<"canceled", TRUE, NoId>>, <<"live", TRUE, NoId>>,
                         <<"live", FALSE, 1>>, <<"draft", TRUE, 1>>}}
  \cup {Call(EBRaw("E2", "deleted", Naive(1), IsoNone, IsoNone, "bare"),
              TRUE, NoId, TRUE)}

\* _upsert_minimal stopped after k of its writes to the event; the venue
\* has been resolved and the event looked up.
CrashEB ==
  \E c \in CrashCalls :
    LET look == LookupMinimal(events, partners, c.raw)
        writes == WritesMinimal(IF look.existing # NoId
                                  THEN events[look.existing]
                                  ELSE EventDefaults,
                                look.existing # NoId, look.partner_id, c.raw,
                                c.auto_publish, c.website_id, now, c.ok)
    IN /\ last.op # "crash"
       /\ look.res = None
       /\ now <= MaxNow
       /\ \E k \in {j - 1 : j \in DOMAIN writes} :
            LET ev == IF k = 0 THEN events
                      ELSE Stored(events, partners, look.existing,
                                  writes[k]).events
            IN /\ Fits(ev, look.partners)
               /\ events' = ev
       /\ partners' = look.partners
       /\ now' = now + 1
       /\ last' = Last("crash", c.raw, c.auto_publish, c.website_id, None)
       /\ UNCHANGED <<legacy, icp, fetch, race>>

\* The complete pass that follows: the same record is upserted.  The log
\* keeps the store the interrupted pass had found.
HealEB ==
  LET out == UpsertMinimal(events, partners, last.raw, last.auto_publish,
                           last.website_id, now, TRUE)
  IN /\ last.op = "crash"
     /\ now <= MaxNow
     /\ Fits(out.events, out.partners)
     /\ events' = out.events
     /\ partners' = out.partners
     /\ now' = now + 1
     /\ last' = [Last("heal", last.raw, last.auto_publish, last.website_id,
                      out.res)
                  EXCEPT !.events = last.events, !.partners = last.partners]
     /\ UNCHANGED <<legacy, icp, fetch, race>>

NextCrash ==
  \/ CrashEB
  \/ HealEB
  \/ SeedEB

SpecCrash == Init /\ [][NextCrash]_vars

(***************************************************************************)
(* Properties of the reconciler (specification Spec).                      *)
(***************************************************************************)
IsUpsert == last.op \in {"upsert_eb", "upsert_tm"}

\* The local events that carry the external id of the last upsert.
SameId(ev) ==
  {i \in 1..Len(ev) :
     IF last.op = "upsert_eb" THEN ev[i].eventbrite_id = last.raw.id
     ELSE ev[i].ticketmaster_id = last.raw.id}

\* The last two operations were the same Eventbrite upsert call.
RepeatedEB ==
  /\ last.op = "upsert_eb"
  /\ last.prev.op = "upsert_eb"
  /\ last.prev.raw = last.raw
  /\ last.prev.auto_publish = last.auto_publish
  /\ last.prev.website_id = last.website_id

\* C1 - idempotency: when an Eventbrite upsert of a record with an id and a
\* change token returned "created", the same call made again returns
\* "skipped" and leaves the catalog as it was.
C1_Idempotent ==
  (RepeatedEB /\ Truthy(last.raw.id) /\ ChangedDt(last.raw) # NoTime
     /\ last.prev.res = "created")
    => (last.res = "skipped" /\ events = last.events)

\* C2 - monotonic freshness: when an Eventbrite upsert has stored change
\* token T1 for an id (it returned "created" or "updated"), an upsert of the
\* same id with a token T0 < T1 returns "skipped" and leaves the catalog as
\* it was.
C2_MonotonicFreshness ==
  (/\ last.op = "upsert_eb" /\ last.prev.op = "upsert_eb"
   /\ Truthy(last.raw.id) /\ last.prev.raw.id = last.raw.id
   /\ last.prev.res \in {"created", "updated"}
   /\ ChangedDt(last.raw) # NoTime
   /\ ChangedDt(last.raw) < ChangedDt(last.prev.raw))
    => (last.res = "skipped" /\ events = last.events)

\* The last operation was an upsert of a terminal-negative record with an
\* id, called with auto_publish.
NegativeUpsert ==
  /\ IsUpsert
  /\ Truthy(last.raw.id)
  /\ last.auto_publish
  /\ \/ last.op = "upsert_eb" /\ last.raw.status \in {"canceled", "deleted"}
     \/ last.op = "upsert_tm" /\ last.raw.status \in {"cancelled", "postponed"}

Hidden(e) == ~e.website_published /\ ~e.active

\* C3 as claimed - unpublish dominance: whenever an upsert of a
\* terminal-negative record with auto_publish returns, every local event of
\* that external id is unpublished and inactive, whatever the event was
\* before.
C3_UnpublishDominance_Claimed ==
  (NegativeUpsert /\ last.res # "raised")
    => \A i \in SameId(events) : Hidden(events[i])

\* C3 - unpublish dominance: whenever an upsert of a terminal-negative record
\* with auto_publish returns "created" or "updated", every local event of
\* that external id is unpublished and inactive.
C3_UnpublishDominance ==
  (NegativeUpsert /\ last.res \in {"created", "updated"})
    => \A i \in SameId(events) : Hidden(events[i])

\* C3 applies: a published event was updated by a terminal-negative record.
C3_Witness ==
  /\ NegativeUpsert
  /\ last.res = "updated"
  /\ \E i \in SameId(last.events) : last.events[i].website_published
  /\ \A i \in SameId(events) : Hidden(events[i])

\* C4 - id-less rejection: an upsert of a record whose id is missing or
\* empty returns "skipped" and changes neither the events nor the places.
C4_IdlessRejection ==
  (IsUpsert /\ ~Truthy(last.raw.id))
    => (/\ last.res = "skipped"
        /\ events = last.events
        /\ partners = last.partners)

\* C4 applies: a record with an empty id and venue data was upserted.
C4_Witness ==
  /\ last.op = "upsert_eb"
  /\ last.raw.id = ""
  /\ last.raw.venue_addr.present
  /\ last.res = "skipped"

\* C5 - uniqueness of the idempotency key: no two local events, inactive
\* ones included, carry the same Eventbrite id or the same Ticketmaster id.
C5_UniqueExternalId ==
  \A i, j \in 1..Len(events) :
    i # j =>
      /\ Truthy(events[i].eventbrite_id)
           => events[i].eventbrite_id # events[j].eventbrite_id
      /\ Truthy(events[i].ticketmaster_id)
           => events[i].ticketmaster_id # events[j].ticketmaster_id

\* The store the last upsert found held an active, published event of the
\* record's id whose stored change token is older than the record's.
LiveBefore(i) ==
  /\ i \in SameId(last.events)
  /\ last.events[i].active
  /\ last.events[i].website_published
  /\ last.op = "upsert_eb" =>
       /\ ChangedDt(last.raw) # NoTime
       /\ last.events[i].eventbrite_changed < ChangedDt(last.raw)

\* C10 - cancellation sequence: an upsert of a terminal-negative record with
\* a newer change token, for an id whose event is published and active,
\* returns "updated", adds no record and leaves that event unpublished and
\* inactive.
C10_CancellationSequence ==
  \A i \in 1..Len(last.events) :
    (IsUpsert /\ NegativeUpsert /\ LiveBefore(i))
      => (/\ last.res = "updated"
          /\ Len(events) = Len(last.events)
          /\ Hidden(events[i]))

(***************************************************************************)
(* Properties of the venue resolvers (specification SpecVenue).            *)
(***************************************************************************)
\* An unset text field is None or empty.
Text(s) == IF Truthy(s) THEN s ELSE None

\* The address the last resolver call supplied: what it gave for each field,
\* codes resolved against the reference tables, unset for what it did not
\* give or what does not resolve.
Supplied ==
  LET a == last.raw.addr IN
    IF last.op = "resolve_eb"
      THEN [street |-> Text(Or(a.address_1, a.address)),
            street2 |-> Text(a.address_2),
            city |-> Text(a.city), zip |-> Text(a.postal_code),
            country_id |-> CountryId(a.country), state_id |-> NoId]
      ELSE [street |-> Text(a.line1), street2 |-> Text(a.line2),
            city |-> Text(a.city), zip |-> Text(a.postalCode),
            country_id |-> CountryId(Upper(a.countryCode)),
            state_id |-> StateId(Upper(a.stateCode))]

AddressOf(p) ==
  [street |-> Text(p.street), street2 |-> Text(p.street2),
   city |-> Text(p.city), zip |-> Text(p.zip),
   country_id |-> p.country_id, state_id |-> p.state_id]

\* The last operation was a resolver call that found an existing place.
ResolvedExisting ==
  /\ last.op \in {"resolve_eb", "resolve_tm"}
  /\ last.res = "returned"
  /\ last.raw.id <= Len(last.partners)

\* C9 - venue overwrite: after a resolver call whose name matches an
\* existing place, every address field of that place is the one supplied in
\* this call, unset where the call supplied or resolved nothing.
C9_VenueOverwrite ==
  ResolvedExisting => AddressOf(partners[last.raw.id]) = Supplied

(***************************************************************************)
(* Properties of the visibility enforcers (specification SpecEnforce).     *)
(***************************************************************************)
IsEnforce == last.op \in {"enforce_eb", "enforce_tm"}

\* The event lacks the source tag the last enforcer looks at, and is in the
\* scope the enforcer was given.
Untagged(e) ==
  /\ IF last.op = "enforce_eb" THEN ~Truthy(e.eventbrite_id)
     ELSE ~Truthy(e.ticketmaster_id)
  /\ InScope(e.website_id, last.website_id)

\* Number of published events without the source tag in the scope of the
\* last enforcer run, in the store it found.
PublishedUntaggedBefore ==
  Cardinality({i \in 1..Len(last.events) :
                 last.events[i].website_published /\ Untagged(last.events[i])})
  + (IF InScope(last.legacy.site, last.website_id)
       THEN last.legacy.published ELSE 0)

\* C6 as claimed - enforcement postcondition: when at most 1000 published
\* events without a source tag are in scope, no event without a source tag
\* in scope is published after the enforcer has run.
C6_EnforcementPostcondition_Claimed ==
  (IsEnforce /\ PublishedUntaggedBefore <= 1000)
    => /\ \A i \in 1..Len(events) :
            Untagged(events[i]) => ~events[i].website_published
       /\ InScope(legacy.site, last.website_id) => legacy.published = 0

\* C6 - enforcement postcondition: when at most 1000 published events
\* without a source tag are in scope, no active event without a source tag
\* in scope is published after the enforcer has run.
C6_EnforcementPostcondition ==
  (IsEnforce /\ PublishedUntaggedBefore <= 1000)
    => /\ \A i \in 1..Len(events) :
            (Untagged(events[i]) /\ events[i].active)
              => ~events[i].website_published
       /\ InScope(legacy.site, last.website_id) => legacy.published = 0

\* C6 applies: the enforcer found exactly 1000 such events and unpublished
\* them all.
C6_Witness ==
  /\ IsEnforce
  /\ PublishedUntaggedBefore = 1000
  /\ \A i \in 1..Len(events) :
       Untagged(events[i]) => ~events[i].website_published
  /\ legacy.published = 0

(***************************************************************************)
(* Properties of the passes (specification SpecPass).                      *)
(***************************************************************************)
IsPass == last.op \in {"cron_eb", "manual_eb", "cron_tm", "manual_tm"}

\* The restrict-to-API-events setting of the service of the last pass, as
\* the pass found it and as it left it.
RestrictBefore ==
  IF last.op \in {"cron_eb", "manual_eb"} THEN last.icp.eb_restrict
  ELSE last.icp.tm_restrict

RestrictAfter ==
  IF last.op \in {"cron_eb", "manual_eb"} THEN icp.eb_restrict
  ELSE icp.tm_restrict

EnabledBefore == GetParam(RestrictBefore, "1") = "1"

\* The back-office events that were published when the last pass started
\* still are.
BackOfficeUntouched ==
  /\ legacy = last.legacy
  /\ \A i \in 1..Len(last.events) :
       (/\ ~Truthy(last.events[i].eventbrite_id)
        /\ ~Truthy(last.events[i].ticketmaster_id)
        /\ last.events[i].website_published)
         => events[i].website_published

\* C7 - enforcement is opt-in: a pass runs the enforcer only if the
\* restrict setting was enabled when the pass started, and a pass started
\* with the setting disabled unpublishes no untagged event and leaves the
\* setting as it was.
C7_EnforcementOptIn ==
  IsPass =>
    /\ last.raw.enforced => EnabledBefore
    /\ ~EnabledBefore => (BackOfficeUntouched /\ RestrictAfter = RestrictBefore)

(***************************************************************************)
(* Properties of the field mapper (specification Spec).                    *)
(***************************************************************************)
\* The event the last upsert created or updated.
Touched ==
  IF last.res = "created" THEN Len(events)
  ELSE IF last.op = "upsert_eb"
    THEN SearchOne(last.events,
                   {i \in 1..Len(last.events) :
                      last.events[i].eventbrite_id = last.raw.id})
  ELSE SearchOne(last.events,
                 {i \in 1..Len(last.events) :
                    last.events[i].ticketmaster_id = last.raw.id})

\* A local time without offset that comes with a timezone name.
LocalWithZone(tm, tz) == tm.kind = "naive" /\ Truthy(tz)

\* C8 - UTC conversion: an Eventbrite upsert stores as date_begin
\* (date_end) the local start (end) time converted from the named timezone
\* to UTC; 20:00 in America/New_York on 2025-06-01 is hour 24, 00:00 UTC of
\* the next day.
C8_UtcConversion ==
  (last.op = "upsert_eb" /\ last.res \in {"created", "updated"}) =>
    LET r == last.raw
        end_tz == Or(r.end.timezone, r.start.timezone)
    IN /\ LocalWithZone(r.start.local, r.start.timezone)
            => events[Touched].date_begin
                 = r.start.local.t - TzOffset(r.start.timezone)
       /\ LocalWithZone(r.end.local, end_tz)
            => events[Touched].date_end = r.end.local.t - TzOffset(end_tz)

(***************************************************************************)
(* Properties of the fetchers (specifications SpecFetch, SpecFetchFair).   *)
(***************************************************************************)
FetchEnded == fetch.pc \in {"returned", "raised"}

\* C11 - bounded paging: every fetch of event pages ends, whatever the
\* upstream answers, an upstream that always reports more pages included.
C11_BoundedPaging == <>FetchEnded

\* C12 - 429 back-off retry: after a page request was answered with HTTP
\* 429 the client has slept and is about to request the same page of the
\* same URL again, and nothing of the 429 answer was used: no event was
\* appended and the fetch did not end on it.
C12_RetryAfter429 ==
  fetch.resp.status = "429" =>
    /\ fetch.resp.slept
    /\ fetch.pc = "request"
    /\ fetch.url = fetch.resp.url
    /\ fetch.page = fetch.resp.page
    /\ fetch.events = fetch.resp.had

\* C13 - no partial fetch results: a fetch that returns events to its caller
\* has been delivered every page it requested; when a page request failed
\* (network error, 429 or another non-2xx status) and was not made good, the
\* events of the other pages are not returned as the result.
C13_NoPartialResults ==
  (fetch.pc = "returned" /\ fetch.events > 0) => fetch.missing = {}

(***************************************************************************)
(* Properties of the passes on errors (specification SpecPass).            *)
(***************************************************************************)
\* C14 - a failed fetch is zero new information: a pass whose fetch of the
\* event pages met a fatal upstream error leaves the catalog and the back
\* office events as it found them, upserts no record and does not run the
\* enforcer.
C14_FailedFetchNoChange ==
  (IsPass /\ last.raw.fetched = "fail") =>
    /\ events = last.events
    /\ legacy = last.legacy
    /\ last.raw.found = 0
    /\ ~last.raw.enforced

\* C15 - the scheduled trigger swallows errors: a scheduled pass
\* (cron_sync_eventbrite, cron_sync_nyc_events) always returns to its
\* caller, without a value; no exception leaves it, a fatal error of the
\* fetch included.
C15_ScheduledNeverRaises ==
  last.op \in {"cron_eb", "cron_tm"} => last.res = "returned"

IsManual == last.op \in {"manual_eb", "manual_tm"}

\* C16 - the manual trigger never raises: a manual fetch
\* (_fetch_all_events_simple, _fetch_nyc_events) always returns a string,
\* the success summary or one that starts with "Error: ", whatever the
\* upstream answered and whatever the upserts of the records did.
C16_ManualNeverRaises ==
  IsManual => last.res \in {"success", "error"}

\* C16 applies: a manual fetch in which the upsert of a record raised has
\* returned its success summary.
C16_Witness ==
  /\ IsManual
  /\ last.raw.counts.raised > 0
  /\ last.res = "success"

\* The credential of the service of the last pass, as the pass found it.
CredentialBefore ==
  IF last.op \in {"cron_eb", "manual_eb"} THEN last.icp.eb_token
  ELSE last.icp.tm_key

\* C17 - a configuration error aborts before any work: a pass that finds no
\* credential (API token, API key) returns without fetching and leaves
\* every event, place and configuration value as it was.
C17_NoCredentialNoWork ==
  (IsPass /\ CredentialBefore \in {None, ""}) =>
    /\ last.res \in {"returned", "error"}
    /\ last.raw.fetched = "none"
    /\ last.raw.found = 0
    /\ ~last.raw.enforced
    /\ events = last.events
    /\ partners = last.partners
    /\ legacy = last.legacy
    /\ icp = last.icp

\* C17 applies: a manual pass without credential has ended while back
\* office events were published and the restriction was not yet stored.
C17_Witness ==
  /\ IsManual
  /\ CredentialBefore \in {None, ""}
  /\ last.res = "error"
  /\ icp = last.icp
  /\ \E i \in 1..Len(events) : events[i].website_published

\* C18 - partial-failure isolation: in a pass in which the upsert of a record
\* raised, every record of the batch was passed to upsert, the later ones
\* included, and the pass reached its end: the enforcement step ran as the
\* pass is set to run it, and the pass returned its summary.
C18_PartialFailureIsolation ==
  (IsPass /\ last.raw.counts.raised > 0) =>
    /\ Len(last.raw.results) = last.raw.found
    /\ last.raw.enforced = (IsManual \/ EnabledBefore)
    /\ last.res \in {"returned", "success"}

\* C18 applies: in a pass that ran the enforcer, the upsert of a record
\* raised and the record after it was created, updated or skipped.
C18_Witness ==
  /\ IsPass
  /\ last.raw.enforced
  /\ \E k \in 1..(Len(last.raw.results) - 1) :
       /\ last.raw.results[k] = "raised"
       /\ last.raw.results[k + 1] # "raised"


(***************************************************************************)
(* Properties of the image download                                        *)
(***************************************************************************)

\* The image URL of the raw record of the last upsert.
LastImageUrl ==
  IF last.op = "upsert_eb" THEN last.raw.logo_url
  ELSE IF last.op = "upsert_tm" THEN ImageUrl(last.raw.images)
  ELSE None

\* The last upsert run again from the state it started in, with the image
\* download succeeding (ok) or failing.
LastUpsertWith(ok) ==
  IF last.op = "upsert_eb"
    THEN UpsertMinimal(last.events, last.partners, last.raw,
                       last.auto_publish, last.website_id, last.now, ok)
    ELSE UpsertTicketmasterEvent(last.events, last.partners, last.raw,
                                 last.auto_publish, last.website_id,
                                 last.now, ok)

\* The events with the image field left out.
WithoutImage(ev) == [i \in 1..Len(ev) |-> [ev[i] EXCEPT !.image_1920 = None]]

\* C19: image fetch is best-effort: an upsert of a record with an image URL
\* returns the same value and stores the same fields other than the image
\* (events and places alike), whether the download succeeds or fails.
C19_ImageBestEffort ==
  (last.op \in {"upsert_eb", "upsert_tm"} /\ LastImageUrl \notin {None, ""}) =>
    \A ok \in BOOLEAN :
      /\ LastUpsertWith(ok).res = last.res
      /\ LastUpsertWith(ok).partners = partners
      /\ WithoutImage(LastUpsertWith(ok).events) = WithoutImage(events)

\* An upsert of a record with an image URL has written an event although
\* the download failed: the image it would have stored is not there.
C19_Witness ==
  /\ last.op \in {"upsert_eb", "upsert_tm"}
  /\ LastImageUrl \notin {None, ""}
  /\ last.res \in {"created", "updated"}
  /\ events # LastUpsertWith(TRUE).events


(***************************************************************************)
(* Properties of the record set                                            *)
(***************************************************************************)

\* The record is on the website.
Shown(rec) == rec.website_published /\ rec.active

\* The records a pass found are still there after it, each under the source
\* ids it had.
RecordsKept ==
  /\ Len(events) >= Len(last.events)
  /\ \A i \in 1..Len(last.events) :
       /\ events[i].eventbrite_id = last.events[i].eventbrite_id
       /\ events[i].ticketmaster_id = last.events[i].ticketmaster_id
  /\ legacy.site = last.legacy.site

\* A record the pass has taken off the website.
TakenOff(i) == Shown(last.events[i]) /\ ~Shown(events[i])

\* C20 as stated: no pass removes an event record, and a record a pass
\* hides has website_published = false and active = false afterwards.
C20_NoHardDelete_Claimed ==
  IsPass =>
    /\ RecordsKept
    /\ \A i \in 1..Len(last.events) :
         TakenOff(i) => (~events[i].website_published /\ ~events[i].active)

\* C20: no pass removes an event record; a record a pass hides has
\* website_published = false afterwards, and is inactive as well only if
\* it carries a source id (the upstream cancellation of a synced event):
\* the enforcers hide by website_published alone.
C20_NoHardDelete ==
  IsPass =>
    /\ RecordsKept
    /\ \A i \in 1..Len(last.events) :
         TakenOff(i) =>
           /\ ~events[i].website_published
           /\ ~events[i].active =>
                (events[i].eventbrite_id \notin {None, ""}
                   \/ events[i].ticketmaster_id \notin {None, ""})

\* One pass has hidden a record by the enforcer, which stays active, and a
\* synced record by its upstream status, which is inactive.
C20_Witness ==
  /\ IsPass
  /\ \E i \in 1..Len(last.events) : TakenOff(i) /\ events[i].active
  /\ \E i \in 1..Len(last.events) : TakenOff(i) /\ ~events[i].active


(***************************************************************************)
(* Properties of the Ticketmaster reconciler                               *)
(***************************************************************************)

\* The last two operations were the same Ticketmaster upsert.
RepeatedTM ==
  /\ last.op = "upsert_tm"
  /\ last.prev.op = "upsert_tm"
  /\ last.prev.raw = last.raw
  /\ last.prev.auto_publish = last.auto_publish
  /\ last.prev.website_id = last.website_id

\* C21 - the skip rule in the Ticketmaster variant: when a Ticketmaster
\* upsert of a record with an id has created or updated the event, the same
\* call made again returns "skipped" and leaves the catalog as it was.
C21_TicketmasterSkipRule ==
  (RepeatedTM /\ Truthy(last.raw.id) /\ last.prev.res \in {"created", "updated"})
    => (last.res = "skipped" /\ events = last.events)


(***************************************************************************)
(* Properties of the record an upsert writes                               *)
(***************************************************************************)

\* The last upsert wrote an event.
Wrote == IsUpsert /\ last.res \in {"created", "updated"}

\* The event the last upsert wrote: the new one, or the one its lookup found.
Written ==
  IF last.res = "created" THEN Len(events)
  ELSE SearchOne(last.events, SameId(last.events))

\* The status the last upsert took from its record (the Ticketmaster code
\* defaults to "onsale").
LastStatus ==
  IF last.op = "upsert_tm" /\ last.raw.status = None THEN "onsale"
  ELSE last.raw.status

LastLiveLike ==
  IF last.op = "upsert_eb" THEN LastStatus \in {"live", "scheduled", "started"}
  ELSE LastStatus \in {"onsale", "rescheduled"}

\* C22 - publish policy as an equivalence: after an upsert that returns
\* "created" or "updated", the event it wrote is published if and only if
\* auto_publish was true and the incoming status is live-like.
C22_PublishEquivalence ==
  Wrote =>
    (events[Written].website_published <=> (last.auto_publish /\ LastLiveLike))


\* C23 - a skipped upsert is a datastore no-op: when an Eventbrite upsert of
\* a record with an id returns "skipped" (the incoming change token is not
\* newer than the stored one), neither the events nor the places have
\* changed.
C23_SkippedIsNoOp ==
  (last.op = "upsert_eb" /\ last.res = "skipped" /\ Truthy(last.raw.id))
    => (events = last.events /\ partners = last.partners)


\* The change token of the record of the last upsert: the first of changed,
\* updated and created that is given, when it is a date; a Ticketmaster
\* record has none.
IncomingToken ==
  IF last.op # "upsert_eb" THEN NoTime
  ELSE IF last.raw.changed.kind # "none"
    THEN (IF last.raw.changed.kind = "naive" THEN last.raw.changed.t ELSE NoTime)
  ELSE IF last.raw.updated.kind # "none"
    THEN (IF last.raw.updated.kind = "naive" THEN last.raw.updated.t ELSE NoTime)
  ELSE IF last.raw.created.kind = "naive" THEN last.raw.created.t
  ELSE NoTime

\* C24 - sync metadata stamping: after an upsert that returns "created" or
\* "updated", the event it wrote stores the change token of the incoming
\* record and the time of the call as last_synced_at; an upsert that
\* returns "skipped" changes neither on any event.
C24_MetadataStamping ==
  /\ Wrote =>
       /\ events[Written].eventbrite_changed = IncomingToken
       /\ events[Written].last_synced_at = last.now
  /\ (IsUpsert /\ last.res = "skipped") =>
       /\ Len(events) = Len(last.events)
       /\ \A i \in 1..Len(last.events) :
            /\ events[i].eventbrite_changed = last.events[i].eventbrite_changed
            /\ events[i].last_synced_at = last.events[i].last_synced_at

\* An update has replaced a stored change token by a newer one taken from
\* the "updated" field of the record, and the time of the sync with it.
C24_Witness ==
  /\ last.op = "upsert_eb"
  /\ last.res = "updated"
  /\ last.raw.changed.kind = "none"
  /\ IncomingToken # NoTime
  /\ last.events[Written].eventbrite_changed # NoTime
  /\ last.events[Written].eventbrite_changed < events[Written].eventbrite_changed
  /\ last.events[Written].last_synced_at < events[Written].last_synced_at


\* The record of the last upsert carries no venue information.
NoVenueInfo ==
  IF last.op = "upsert_eb"
    THEN ~Truthy(last.raw.venue_name) /\ ~last.raw.venue_addr.present
    ELSE ~last.raw.venue.present

\* C25 - venue reference only when venue data is present: an upsert of a
\* record without venue information leaves the places as they were, and
\* the event it writes has no venue reference on create and the one it had
\* on update.
C25_NoVenueNoPlace ==
  (IsUpsert /\ NoVenueInfo) =>
    /\ partners = last.partners
    /\ last.res = "created" => events[Written].address_id = NoId
    /\ last.res = "updated" =>
         events[Written].address_id = last.events[Written].address_id


(***************************************************************************)
(* Properties of the places                                                *)
(***************************************************************************)

IsResolve(call) == call.op \in {"resolve_eb", "resolve_tm"} /\ call.res = "returned"

\* The name a resolver call looks up: the venue name, "Venue" without one.
PlaceName(call) == IF Truthy(call.raw.name) THEN call.raw.name ELSE "Venue"

ActiveNamed(pa, name) == {i \in 1..Len(pa) : pa[i].name = name /\ pa[i].active}

MayUnpublish(e) ==
  /\ e.website_published
  /\ IF last.op = "enforce_eb" THEN e.eventbrite_id \in {None, ""}
     ELSE e.ticketmaster_id \in {None, ""}
  /\ last.website_id = NoId \/ e.website_id = last.website_id

\* C27 - frame of the enforcer: a run adds and removes no event, changes
\* only events that were published, lack the source id and are in the site
\* scope, and on those only website_published; places and configuration
\* stay as they were, and the back-office group only loses published
\* events, and only when it is in scope.
C27_EnforcerFrame ==
  IsEnforce =>
    /\ Len(events) = Len(last.events)
    /\ \A i \in 1..Len(last.events) :
         \/ events[i] = last.events[i]
         \/ /\ MayUnpublish(last.events[i])
            /\ events[i] = [last.events[i] EXCEPT !.website_published = FALSE]
    /\ partners = last.partners
    /\ icp = last.icp
    /\ legacy.site = last.legacy.site
    /\ legacy.published <= last.legacy.published
    /\ legacy.published < last.legacy.published =>
         (last.website_id = NoId \/ legacy.site = last.website_id)

\* A run for one site has unpublished an event of that site and left
\* published an event without source id of another scope and an event that
\* carries the source id.
C27_Witness ==
  /\ IsEnforce
  /\ last.website_id # NoId
  /\ \E i \in 1..Len(events) : events[i] # last.events[i]
  /\ \E i \in 1..Len(events) :
       /\ events[i].website_published
       /\ events[i].website_id # last.website_id
       /\ events[i].eventbrite_id = None /\ events[i].ticketmaster_id = None
  /\ \E i \in 1..Len(events) :
       /\ events[i].website_published
       /\ events[i].website_id = last.website_id
       /\ ~MayUnpublish(events[i])


\* The event carries the id of a known source.
Synced(e) == e.eventbrite_id \notin {None, ""} \/ e.ticketmaster_id \notin {None, ""}

\* C28 - enforcement spares every synced event: an enforcer run of either
\* source leaves every event that carries an Eventbrite or a Ticketmaster
\* id as published as it was.
C28_EnforcementSparesSynced ==
  IsEnforce =>
    \A i \in 1..Len(last.events) :
      Synced(last.events[i]) =>
        events[i].website_published = last.events[i].website_published


(***************************************************************************)
(* The batch ceiling of the visibility enforcers                           *)
(***************************************************************************)

\* Number of published events without the source tag in the scope of the
\* last enforcer run, in a store: all of them, or the ones not archived.
PublishedUntagged(ev, leg) ==
  Cardinality({i \in 1..Len(ev) : ev[i].website_published /\ Untagged(ev[i])})
  + (IF InScope(leg.site, last.website_id) THEN leg.published ELSE 0)

PublishedUntaggedActive(ev, leg) ==
  Cardinality({i \in 1..Len(ev) :
                 ev[i].website_published /\ ev[i].active /\ Untagged(ev[i])})
  + (IF InScope(leg.site, last.website_id) THEN leg.published ELSE 0)

\* What a run leaves of n matching events: the ones beyond the first 1000.
LeftOver(n) == IF n > 1000 THEN n - 1000 ELSE 0

\* C29 as claimed - batch ceiling and eventual enforcement: an enforcer run
\* that finds N published events without the source tag in scope
\* unpublishes the first 1000 and leaves the others published, so that
\* repeated runs bring the number to zero.
C29_BatchCeiling_Claimed ==
  IsEnforce =>
    PublishedUntagged(events, legacy)
      = LeftOver(PublishedUntagged(last.events, last.legacy))

\* C29 - batch ceiling and eventual enforcement: an enforcer run that finds
\* N published events without the source tag in scope that are not
\* archived unpublishes 1000 of them, or all when N <= 1000, and leaves the
\* others published; an archived one is never unpublished.
C29_BatchCeiling ==
  IsEnforce =>
    /\ PublishedUntaggedActive(events, legacy)
         = LeftOver(PublishedUntaggedActive(last.events, last.legacy))
    /\ PublishedUntagged(events, legacy)
           - PublishedUntaggedActive(events, legacy)
         = PublishedUntagged(last.events, last.legacy)
             - PublishedUntaggedActive(last.events, last.legacy)

\* A run found more than 1000 such events and left the ones beyond 1000
\* published.
C29_Witness ==
  /\ IsEnforce
  /\ PublishedUntaggedActive(last.events, last.legacy) > 1000
  /\ PublishedUntaggedActive(events, legacy) > 0
  /\ PublishedUntaggedActive(events, legacy)
       = PublishedUntaggedActive(last.events, last.legacy) - 1000


(***************************************************************************)
(* Properties of two passes at once (specification SpecRace).              *)
(***************************************************************************)

\* Both passes have ended, and both have written an event.
BothWrote ==
  \A p \in Procs :
    race.pass[p].pc = "done" /\ race.pass[p].res \in {"created", "updated"}

\* C30 - racing passes are last-write-wins: when two passes have upserted
\* the same external id at the same time, their lookups and writes in any
\* order, the catalog holds exactly one event of that id, and it is the
\* event as the pass that wrote last has written it.
C30_LastWriteWins ==
  BothWrote =>
    LET same == {i \in 1..Len(events) :
                   events[i].eventbrite_id = race.pass[1].call.raw.id}
    IN /\ Cardinality(same) = 1
       /\ \A i \in same : events[i] = race.pass[race.order[2]].rec


(***************************************************************************)
(* Properties of the active flag (specification SpecSync).                 *)
(***************************************************************************)

\* The last operation was an upsert of a terminal-negative record.
LastNegative ==
  \/ last.op = "upsert_eb" /\ LastStatus \in {"canceled", "deleted"}
  \/ last.op = "upsert_tm" /\ LastStatus \in {"cancelled", "postponed"}

\* C32 - no re-activation: an upsert or an enforcer run leaves every event
\* that was inactive inactive; an event is made inactive, or created
\* inactive, only by the upsert of a terminal-negative record.
C32_NoReactivation ==
  (IsUpsert \/ IsEnforce) =>
    /\ \A i \in 1..Len(last.events) :
         /\ ~last.events[i].active => ~events[i].active
         /\ (last.events[i].active /\ ~events[i].active) => LastNegative
    /\ \A i \in (Len(last.events) + 1)..Len(events) :
         ~events[i].active => LastNegative

\* An upsert of a live-like record for the id of an event that a
\* cancellation had made inactive: the event is still inactive, and the
\* upsert has created another one.
C32_Witness ==
  /\ IsUpsert
  /\ LastLiveLike
  /\ last.auto_publish
  /\ last.res = "created"
  /\ \E i \in SameId(last.events) :
       /\ ~last.events[i].active
       /\ ~events[i].active


(***************************************************************************)
(* The page ceiling of the Ticketmaster fetch (specification SpecFetch).   *)
(***************************************************************************)

\* C33 - page ceiling value: one call of the Ticketmaster fetch issues at
\* most 50 page requests, whatever the upstream answers.
C33_PageCeilingValue ==
  fetch.kind = "tm" => fetch.requests <= PageCeiling


(***************************************************************************)
(* Properties of the timestamps (specification Spec).                      *)
(***************************************************************************)

\* The start and end of the record of the last upsert, as given.
LastStart == IF last.op = "upsert_eb" THEN last.raw.start.local ELSE last.raw.start

LastEnd == IF last.op = "upsert_eb" THEN last.raw.end.local ELSE last.raw.end

\* The change token of the record of the last upsert is given but is no
\* date: the first of changed, updated and created that is present.
LastTokenUnparsable ==
  /\ last.op = "upsert_eb"
  /\ \/ last.raw.changed.kind = "bad"
     \/ last.raw.changed.kind = "none" /\ last.raw.updated.kind = "bad"
     \/ /\ last.raw.changed.kind = "none" /\ last.raw.updated.kind = "none"
        /\ last.raw.created.kind = "bad"

\* The start and end part of C34: an unparsable start or end is stored as
\* the time of the call.
DatesFallBackToNow ==
  Wrote =>
    /\ LastStart.kind = "bad" => events[Written].date_begin = last.now
    /\ LastEnd.kind = "bad" => events[Written].date_end = last.now

\* C34 - unparsable timestamps fall back to now: an upsert that writes an
\* event stores the time of the call for every timestamp of the record
\* that is present and cannot be parsed: start, end and change token.
C34_UnparsableFallsBackToNow ==
  /\ DatesFallBackToNow
  /\ (Wrote /\ LastTokenUnparsable) =>
       events[Written].eventbrite_changed = last.now


(***************************************************************************)
(* Properties of the stored change token (specification Spec).             *)
(***************************************************************************)

C36_PublishedImpliesActive ==
  \A i \in 1..Len(events) :
    (Synced(events[i]) /\ events[i].website_published) => events[i].active

\* An event that a cancellation made inactive, after a later upsert of a
\* live-like record of its id with auto_publish: unpublished still, beside
\* the published event this upsert created.
C36_Witness ==
  /\ IsUpsert
  /\ LastLiveLike
  /\ last.auto_publish
  /\ last.res = "created"
  /\ \E i \in SameId(last.events) :
       ~events[i].active /\ ~events[i].website_published
  /\ events[Written].website_published /\ events[Written].active


(***************************************************************************)
(* Properties of the summary of a pass (specification SpecPass).           *)
(***************************************************************************)

\* The three counters of the summary, added up.
Reported ==
  last.raw.counts.created + last.raw.counts.updated + last.raw.counts.skipped

\* The records of the batch whose upsert raised.
RaisedRecords == {k \in 1..Len(last.raw.results) : last.raw.results[k] = "raised"}

\* C37 as claimed - summary counts are complete: at the end of a pass,
\* created + updated + skipped is the number of records found.
C37_CountsComplete_Claimed ==
  IsPass => Reported = last.raw.found

\* C37 - summary counts: at the end of a pass, created + updated + skipped
\* is the number of records found less the records whose upsert raised;
\* those are counted in none of the three.
C37_CountsComplete ==
  IsPass =>
    /\ Len(last.raw.results) = last.raw.found
    /\ last.raw.counts.raised = Cardinality(RaisedRecords)
    /\ Reported = last.raw.found - Cardinality(RaisedRecords)

\* A pass has ended with its summary, with a record upserted and a record
\* whose upsert raised.
C37_Witness ==
  /\ IsPass
  /\ last.res \in {"returned", "success"}
  /\ RaisedRecords # {}
  /\ Reported > 0
  /\ Reported < last.raw.found


(***************************************************************************)
(* Properties of an interrupted pass (specification SpecCrash).            *)
(***************************************************************************)

\* The events of two catalogs are in the same state, the time of the last
\* sync left aside.
SameEventState(a, b) ==
  /\ Len(a) = Len(b)
  /\ \A i \in 1..Len(a) :
       [a[i] EXCEPT !.last_synced_at = NoTime]
         = [b[i] EXCEPT !.last_synced_at = NoTime]

\* The catalog one uninterrupted pass would have left, run at the time of
\* the complete pass on the store the interrupted pass had found.
Uninterrupted ==
  UpsertMinimal(last.events, last.partners, last.raw, last.auto_publish,
                last.website_id, last.now, TRUE).events

\* C31 - self-healing after a crash: after a pass that was interrupted
\* between two writes of an upsert and a complete pass over the same
\* record, the events are in the state one uninterrupted pass would have
\* left them in.
C31_SelfHealing ==
  last.op = "heal" => SameEventState(events, Uninterrupted)

====
